---- MODULE Spec2Model ----
(***************************************************************************)
(* Model of library_backend.py: the Item model (Item, Book, DVD), the row  *)
(* normalizer and LibraryRepository (load / save / add / delete, and the   *)
(* corruption-recovery prompt).                                            *)
(*                                                                         *)
(* Python values are tagged records [k |-> kind, v |-> payload] so that    *)
(* isinstance tests, int(), str(), bool() and strip() are computed rather  *)
(* than assumed.  A Python str is a sequence of one-character strings.     *)
(***************************************************************************)
EXTENDS Integers, Sequences, FiniteSets, TLC

\* ------------------------------------------------------------------ bounds
MaxItems == 2       \* longest collection add_item may build
MaxCounter == 3     \* Item._id_counter values explored by construction
MaxPrompts == 2     \* showings of the recovery prompt that are told apart

\* ------------------------------------------------------- Python values
None == [k |-> "null", v |-> 0]
PyInt(n) == [k |-> "int", v |-> n]
PyStr(s) == [k |-> "str", v |-> s]
PyBool(b) == [k |-> "bool", v |-> b]
\* a float with fractional part one half: v stands for v + 0.5 (v >= 0)
PyFloat(n) == [k |-> "float", v |-> n]
PyList(s) == [k |-> "list", v |-> s]
PyDict(d) == [k |-> "dict", v |-> d]

IsStr(x) == x.k = "str"
IsNone(x) == x.k = "null"

\* dict.get(key) with the default None, and dict.get(key, default)
Get(d, key) == IF key \in DOMAIN d THEN d[key] ELSE None
GetOr(d, key, default) == IF key \in DOMAIN d THEN d[key] ELSE default

\* outcome of a call: a returned value, or a raised exception
Ok(x) == [ok |-> TRUE, val |-> x]
Raise(exc, row, field) == [ok |-> FALSE, exc |-> exc, row |-> row, field |-> field]

\* sequencing of statements: an exception of the first ends the function,
\* otherwise the rest runs with the value the first returned
Bind(r, Rest(_)) == IF r.ok THEN Rest(r.val) ELSE r

\* ------------------------------------------------------------- strings
Whitespace == {" ", "\t", "\n"}
Digits == {"0", "1", "2", "3", "4", "5", "6", "7", "8", "9"}

DigitVal(c) ==
  CASE c = "0" -> 0 [] c = "1" -> 1 [] c = "2" -> 2 [] c = "3" -> 3
    [] c = "4" -> 4 [] c = "5" -> 5 [] c = "6" -> 6 [] c = "7" -> 7
    [] c = "8" -> 8 [] c = "9" -> 9

SetMin(S) == CHOOSE x \in S : \A y \in S : x <= y
SetMax(S) == CHOOSE x \in S : \A y \in S : x >= y

\* str.strip()
Strip(s) ==
  LET keep == {i \in 1..Len(s) : s[i] \notin Whitespace}
  IN IF keep = {} THEN <<>> ELSE SubSeq(s, SetMin(keep), SetMax(keep))

\* str.lower() on ASCII letters
UpperLetters ==
  <<"A", "B", "C", "D", "E", "F", "G", "H", "I", "J", "K", "L", "M",
    "N", "O", "P", "Q", "R", "S", "T", "U", "V", "W", "X", "Y", "Z">>
LowerLetters ==
  <<"a", "b", "c", "d", "e", "f", "g", "h", "i", "j", "k", "l", "m",
    "n", "o", "p", "q", "r", "s", "t", "u", "v", "w", "x", "y", "z">>
LowerChar(c) ==
  IF \E i \in 1..26 : UpperLetters[i] = c
  THEN LowerLetters[CHOOSE i \in 1..26 : UpperLetters[i] = c]
  ELSE c
Lower(s) == [i \in 1..Len(s) |-> LowerChar(s[i])]

AllDigits(s) == Len(s) > 0 /\ \A i \in 1..Len(s) : s[i] \in Digits

RECURSIVE DecVal(_)
DecVal(s) == IF s = <<>> THEN 0
             ELSE 10 * DecVal(SubSeq(s, 1, Len(s) - 1)) + DigitVal(s[Len(s)])

\* ------------------------------------------- datetime.strptime(s, "%Y-%m-%d")
\* %m is the regex 1[0-2]|0[1-9]|[1-9]
MonthToken(t) ==
  \/ Len(t) = 2 /\ t[1] = "1" /\ t[2] \in {"0", "1", "2"}
  \/ Len(t) = 2 /\ t[1] = "0" /\ t[2] \in Digits \ {"0"}
  \/ Len(t) = 1 /\ t[1] \in Digits \ {"0"}

\* %d is the regex 3[01]|[12]\d|0[1-9]|[1-9]| [1-9]
DayToken(t) ==
  \/ Len(t) = 2 /\ t[1] = "3" /\ t[2] \in {"0", "1"}
  \/ Len(t) = 2 /\ t[1] \in {"1", "2"} /\ t[2] \in Digits
  \/ Len(t) = 2 /\ t[1] \in {"0", " "} /\ t[2] \in Digits \ {"0"}
  \/ Len(t) = 1 /\ t[1] \in Digits \ {"0"}

IsLeap(y) == (y % 4 = 0 /\ y % 100 # 0) \/ y % 400 = 0

DaysInMonth(y, m) ==
  IF m = 2 THEN (IF IsLeap(y) THEN 29 ELSE 28)
  ELSE IF m \in {4, 6, 9, 11} THEN 30 ELSE 31

\* TRUE iff strptime returns a datetime (it raises ValueError otherwise)
StrptimeOk(s) ==
  /\ Len(s) >= 8
  /\ AllDigits(SubSeq(s, 1, 4))
  /\ s[5] = "-"
  /\ \E lm \in {1, 2} :
       /\ Len(s) >= 5 + lm + 2
       /\ MonthToken(SubSeq(s, 6, 5 + lm))
       /\ s[6 + lm] = "-"
       /\ LET dayTok == SubSeq(s, 7 + lm, Len(s))
              y == DecVal(SubSeq(s, 1, 4))
              m == DecVal(SubSeq(s, 6, 5 + lm))
          IN /\ DayToken(dayTok)
             /\ y >= 1
             /\ DecVal(Strip(dayTok)) <= DaysInMonth(y, m)

\* ensure_due_date_string(value)
ensure_due_date_string(value) ==
  IF ~IsStr(value) \/ Strip(value.v) = <<>>
  THEN Raise("ValueError", 0, "due_date")
  ELSE IF ~StrptimeOk(Strip(value.v))
       THEN Raise("ValueError", 0, "due_date")
       ELSE Ok(PyStr(Strip(value.v)))

\* ------------------------------------------------------------ builtins
\* int(value): the integer, or the exception it raises
PyIntOf(value) ==
  CASE value.k = "int" -> Ok(value.v)
    [] value.k = "bool" -> Ok(IF value.v THEN 1 ELSE 0)
    [] value.k = "float" -> Ok(value.v)
    [] value.k = "str" ->
         LET t == Strip(value.v)
             neg == Len(t) > 0 /\ t[1] = "-"
             body == IF Len(t) > 0 /\ t[1] \in {"-", "+"} THEN Tail(t) ELSE t
         IN IF AllDigits(body)
            THEN Ok(IF neg THEN 0 - DecVal(body) ELSE DecVal(body))
            ELSE Raise("ValueError", 0, "int")
    [] OTHER -> Raise("TypeError", 0, "int")

\* bool(value)
PyTruthy(value) ==
  CASE value.k = "bool" -> value.v
    [] value.k = "int" -> value.v # 0
    [] value.k = "float" -> TRUE
    [] value.k = "null" -> FALSE
    [] value.k = "str" -> value.v # <<>>
    [] value.k = "list" -> value.v # <<>>
    [] value.k = "dict" -> DOMAIN value.v # {}

\* decimal digits of a natural number, as str() prints it
DigitChar(n) ==
  CASE n = 0 -> "0" [] n = 1 -> "1" [] n = 2 -> "2" [] n = 3 -> "3"
    [] n = 4 -> "4" [] n = 5 -> "5" [] n = 6 -> "6" [] n = 7 -> "7"
    [] n = 8 -> "8" [] n = 9 -> "9"

RECURSIVE NatRepr(_)
NatRepr(n) == IF n < 10 THEN <<DigitChar(n)>>
              ELSE Append(NatRepr(n \div 10), DigitChar(n % 10))

\* str(value)
PyStrOf(value) ==
  CASE value.k = "str" -> value.v
    [] value.k = "int" ->
         IF value.v < 0 THEN <<"-">> \o NatRepr(0 - value.v) ELSE NatRepr(value.v)
    [] value.k = "float" -> NatRepr(value.v) \o <<".", "5">>
    [] value.k = "bool" ->
         IF value.v THEN <<"T", "r", "u", "e">> ELSE <<"F", "a", "l", "s", "e">>
    [] value.k = "null" -> <<"N", "o", "n", "e">>
    [] value.k = "list" -> <<"[", "]">>
    [] value.k = "dict" -> <<"{", "}">>

\* ---------------------------------------------------------- row normalizer
BookName == <<"B", "o", "o", "k">>
DVDName == <<"D", "V", "D">>
ItemName == <<"I", "t", "e", "m">>
VALID_ITEM_TYPES == {BookName, DVDName}

require_string(value, field, index) ==
  IF ~IsStr(value) THEN Raise("ValueError", index + 1, field)
  ELSE IF Strip(value.v) = <<>> THEN Raise("ValueError", index + 1, field)
       ELSE Ok(PyStr(Strip(value.v)))

require_bool(value, index) ==
  IF value.k = "bool" THEN Ok(value)
  ELSE Raise("ValueError", index + 1, "is_checked_out")

require_positive_int(value, field, index, allow_zero) ==
  LET number == PyIntOf(value)
  IN IF ~number.ok THEN Raise("ValueError", index + 1, field)
     ELSE IF allow_zero
          THEN (IF number.val < 0 THEN Raise("ValueError", index + 1, field)
                ELSE Ok(PyInt(number.val)))
          ELSE (IF number.val <= 0 THEN Raise("ValueError", index + 1, field)
                ELSE Ok(PyInt(number.val)))

require_rating(value, index) ==
  LET rating == require_positive_int(value, "rating", index, FALSE)
  IN IF ~rating.ok THEN rating
     ELSE IF ~(1 <= rating.val.v /\ rating.val.v <= 5)
          THEN Raise("ValueError", index + 1, "rating")
          ELSE rating

\* `value in {None, ""}` hashes value: a list or a dict raises TypeError.
\* The error of ensure_due_date_string carries no row number (row 0).
require_date_or_none(value, index) ==
  IF value.k \in {"list", "dict"} THEN Raise("TypeError", 0, "due_date")
  ELSE IF IsNone(value) \/ value = PyStr(<<>>) THEN Ok(None)
  ELSE IF ~IsStr(value) THEN Raise("ValueError", index + 1, "due_date")
  ELSE Bind(ensure_due_date_string(value), LAMBDA checked : Ok(PyStr(Strip(value.v))))

normalize_item_type(primary, fallback, index) ==
  LET candidate == IF PyTruthy(primary) THEN primary ELSE fallback
  IN IF ~IsStr(candidate) THEN Raise("ValueError", index + 1, "type")
     ELSE IF Strip(candidate.v) \notin VALID_ITEM_TYPES
          THEN Raise("ValueError", index + 1, "type")
          ELSE Ok(PyStr(Strip(candidate.v)))

\* lines 118-129 of _normalize_json_row: the fields of the variant, written
\* into `normalized`
normalize_variant(d, index, item_type, normalized) ==
  IF item_type.v = BookName
  THEN Bind(require_string(Get(d, "author"), "author", index), LAMBDA author :
       Bind(require_positive_int(Get(d, "pages"), "pages", index, FALSE), LAMBDA pages :
       Ok(PyDict(("author" :> author) @@ ("pages" :> pages) @@ normalized))))
  ELSE Bind(require_positive_int(GetOr(d, "duration", Get(d, "duration_minutes")),
                                 "duration", index, FALSE), LAMBDA duration :
       Bind(require_rating(Get(d, "rating"), index), LAMBDA rating :
       Ok(PyDict(("duration" :> duration) @@ ("duration_minutes" :> duration)
                 @@ ("rating" :> rating) @@ normalized))))

\* _normalize_json_row(row, index): the normalized dict, or the first error
normalize_json_row(row, index) ==
  IF row.k # "dict" THEN Raise("ValueError", index + 1, "entry")
  ELSE
    Bind(require_positive_int(Get(row.v, "id"), "id", index, FALSE), LAMBDA id :
    Bind(require_string(Get(row.v, "title"), "title", index), LAMBDA title :
    Bind(require_bool(Get(row.v, "is_checked_out"), index), LAMBDA out :
    Bind(require_date_or_none(Get(row.v, "due_date"), index), LAMBDA due :
    Bind(normalize_item_type(Get(row.v, "type"), Get(row.v, "item_type"), index),
         LAMBDA item_type :
    normalize_variant(row.v, index, item_type,
                      ("id" :> id) @@ ("title" :> title)
                      @@ ("is_checked_out" :> out) @@ ("due_date" :> due)
                      @@ ("type" :> item_type) @@ ("item_type" :> item_type)
                      @@ row.v))))))

\* a normalization that drops the rows that failed
FirstErrorOrAll_skipping(res) ==
  Ok(SelectSeq([i \in 1..Len(res) |-> IF res[i].ok THEN res[i].val ELSE None],
               LAMBDA x : x # None))

\* the list of normalized rows, or the error of the first row that failed
FirstErrorOrAll(res) ==
  LET bad == {i \in 1..Len(res) : ~res[i].ok}
  IN IF bad # {} THEN res[SetMin(bad)]
     ELSE Ok([i \in 1..Len(res) |-> res[i].val])

\* LibraryRepository._normalize_rows(payload)
normalize_rows(payload) ==
  IF IsNone(payload) \/ payload = PyStr(<<>>) THEN Ok(<<>>)
  ELSE IF payload.k # "list" THEN Raise("ValueError", 0, "payload")
  ELSE FirstErrorOrAll([i \in 1..Len(payload.v) |->
                          normalize_json_row(payload.v[i], i - 1)])

\* --------------------------------------------------------------- Item model
\* An item is a record: cls (the class name) and the dataclass fields of that
\* class.  Field values are Python values; the constructor checks nothing.
UntitledName == <<"U", "n", "t", "i", "t", "l", "e", "d">>
UnknownName == <<"U", "n", "k", "n", "o", "w", "n">>

ClassName(it) == IF it.cls = "Book" THEN BookName
                 ELSE IF it.cls = "DVD" THEN DVDName ELSE ItemName

\* Item._generate_id: the id handed out and the counter afterwards
generate_id(counter) == [id |-> PyInt(counter), counter |-> counter + 1]

\* Item.__post_init__ after the dataclass __init__ stored the fields
post_init(it, counter) ==
  IF IsNone(it.id)
  THEN [item |-> [it EXCEPT !.id = generate_id(counter).id],
        counter |-> generate_id(counter).counter]
  ELSE [item |-> it, counter |-> counter]

\* check_out without the already-checked-out guard
check_out_unguarded(it, due_date) ==
  LET marked == [it EXCEPT !.is_checked_out = PyBool(TRUE)]
      date == ensure_due_date_string(due_date)
  IN IF ~date.ok
     THEN [item |-> marked, raised |-> TRUE]
     ELSE [item |-> [marked EXCEPT !.due_date = date.val], raised |-> FALSE]

\* Item.check_out(due_date): the item afterwards and whether the call raised
check_out(it, due_date) ==
  IF PyTruthy(it.is_checked_out)
  THEN [item |-> it, raised |-> TRUE]
  ELSE LET marked == [it EXCEPT !.is_checked_out = PyBool(TRUE)]
           date == ensure_due_date_string(due_date)
       IN IF ~date.ok
          THEN [item |-> marked, raised |-> TRUE]
          ELSE [item |-> [marked EXCEPT !.due_date = date.val], raised |-> FALSE]

\* return_item that forgets to clear due_date
return_item_keeps_date(it) ==
  IF ~PyTruthy(it.is_checked_out)
  THEN [item |-> it, raised |-> TRUE]
  ELSE [item |-> [it EXCEPT !.is_checked_out = PyBool(FALSE)], raised |-> FALSE]

\* Item.return_item()
return_item(it) ==
  IF ~PyTruthy(it.is_checked_out)
  THEN [item |-> it, raised |-> TRUE]
  ELSE [item |-> [it EXCEPT !.is_checked_out = PyBool(FALSE), !.due_date = None],
        raised |-> FALSE]

\* Item.to_dict
Item_to_dict(it) ==
  ("id" :> it.id) @@ ("title" :> it.title)
  @@ ("is_checked_out" :> it.is_checked_out) @@ ("due_date" :> it.due_date)
  @@ ("item_type" :> PyStr(ClassName(it))) @@ ("type" :> PyStr(ClassName(it)))

\* Book.to_dict
Book_to_dict(it) ==
  ("author" :> it.author) @@ ("pages" :> it.pages) @@ Item_to_dict(it)

\* DVD.to_dict that leaves out the rating
DVD_to_dict_without_rating(it) ==
  ("duration" :> it.duration) @@ ("duration_minutes" :> it.duration)
  @@ Item_to_dict(it)

\* DVD.to_dict
DVD_to_dict(it) ==
  ("duration" :> it.duration) @@ ("duration_minutes" :> it.duration)
  @@ ("rating" :> it.rating) @@ Item_to_dict(it)

\* item.to_dict() by dynamic dispatch
to_dict(it) ==
  IF it.cls = "Book" THEN Book_to_dict(it)
  ELSE IF it.cls = "DVD" THEN DVD_to_dict(it) ELSE Item_to_dict(it)

\* the id argument every _deserialize passes to the constructor
DeserializedId(payload) ==
  IF IsNone(Get(payload, "id")) THEN Ok(None)
  ELSE IF PyIntOf(payload["id"]).ok THEN Ok(PyInt(PyIntOf(payload["id"]).val))
       ELSE PyIntOf(payload["id"])

\* Item._deserialize
Item_deserialize(payload, counter) ==
  LET rid == DeserializedId(payload)
  IN IF ~rid.ok THEN rid
     ELSE Ok(post_init(
            [cls |-> "Item",
             title |-> PyStr(PyStrOf(GetOr(payload, "title", PyStr(UntitledName)))),
             is_checked_out |->
               PyBool(PyTruthy(GetOr(payload, "is_checked_out", PyBool(FALSE)))),
             due_date |-> Get(payload, "due_date"),
             id |-> rid.val], counter))

\* Book._deserialize
Book_deserialize(payload, counter) ==
  LET rid == DeserializedId(payload)
      rpages == PyIntOf(GetOr(payload, "pages", PyInt(1)))
  IN IF ~rpages.ok THEN rpages
     ELSE IF ~rid.ok THEN rid
     ELSE Ok(post_init(
            [cls |-> "Book",
             title |-> PyStr(PyStrOf(GetOr(payload, "title", PyStr(UntitledName)))),
             author |-> PyStr(PyStrOf(GetOr(payload, "author", PyStr(UnknownName)))),
             pages |-> PyInt(rpages.val),
             is_checked_out |->
               PyBool(PyTruthy(GetOr(payload, "is_checked_out", PyBool(FALSE)))),
             due_date |-> Get(payload, "due_date"),
             id |-> rid.val], counter))

\* DVD._deserialize
DVD_deserialize(payload, counter) ==
  LET rid == DeserializedId(payload)
      duration_value ==
        GetOr(payload, "duration", GetOr(payload, "duration_minutes", PyInt(1)))
      rduration == PyIntOf(duration_value)
      rrating == PyIntOf(GetOr(payload, "rating", PyInt(3)))
  IN IF ~rduration.ok THEN rduration
     ELSE IF ~rrating.ok THEN rrating
     ELSE IF ~rid.ok THEN rid
     ELSE Ok(post_init(
            [cls |-> "DVD",
             title |-> PyStr(PyStrOf(GetOr(payload, "title", PyStr(UntitledName)))),
             duration |-> PyInt(rduration.val),
             rating |-> PyInt(rrating.val),
             is_checked_out |->
               PyBool(PyTruthy(GetOr(payload, "is_checked_out", PyBool(FALSE)))),
             due_date |-> Get(payload, "due_date"),
             id |-> rid.val], counter))

\* Item.from_dict: dispatch on ITEM_TYPE_REGISTRY; Ok([item, counter]) or the
\* exception of a failed int()
from_dict(payload, counter) ==
  LET item_type == GetOr(payload, "item_type", GetOr(payload, "type", PyStr(ItemName)))
      name == PyStrOf(item_type)
  IN IF name = BookName THEN Book_deserialize(payload, counter)
     ELSE IF name = DVDName THEN DVD_deserialize(payload, counter)
     ELSE Item_deserialize(payload, counter)

\* max(item.id or 0 for item in items); ids in a collection are ints or None
IdOrZero(it) == IF PyTruthy(it.id) THEN it.id.v ELSE 0

\* sync_id_counter that takes the id of the last item instead of the maximum
sync_id_counter_last(its) ==
  IF its = <<>> THEN 1 ELSE IdOrZero(its[Len(its)]) + 1

\* Item.sync_id_counter(items): the new value of Item._id_counter
sync_id_counter(its) ==
  IF its = <<>> THEN 1
  ELSE SetMax({IdOrZero(its[i]) : i \in 1..Len(its)}) + 1

\* ------------------------------------------------------------ sample inputs
D_2025_01_15 == <<"2", "0", "2", "5", "-", "0", "1", "-", "1", "5">>
D_padded == <<" ">> \o D_2025_01_15 \o <<" ">>
D_2025_2_1 == <<"2", "0", "2", "5", "-", "2", "-", "1">>
D_feb30 == <<"2", "0", "2", "5", "-", "0", "2", "-", "3", "0">>
D_slashes == <<"1", "5", "/", "0", "1", "/", "2", "0", "2", "5">>

\* due dates handed to check_out
DueDateArgs ==
  {PyStr(D_padded), PyStr(D_2025_2_1), PyStr(<<>>), PyStr(<<" ">>),
   PyStr(D_feb30), PyStr(D_slashes)}

\* constructor calls: the dataclass fields before __post_init__
CtorArgs ==
  { [cls |-> "Book", title |-> PyStr(<<"A">>), author |-> PyStr(<<"O">>),
     pages |-> PyInt(328), is_checked_out |-> PyBool(FALSE), due_date |-> None,
     id |-> None],
    [cls |-> "DVD", title |-> PyStr(<<"I">>), duration |-> PyInt(148),
     rating |-> PyInt(4), is_checked_out |-> PyBool(FALSE), due_date |-> None,
     id |-> None],
    [cls |-> "Book", title |-> PyStr(<<"B">>), author |-> PyStr(<<"O">>),
     pages |-> PyInt(1), is_checked_out |-> PyBool(FALSE), due_date |-> None,
     id |-> PyInt(1)],
    [cls |-> "DVD", title |-> PyStr(<<"J">>), duration |-> PyInt(1),
     rating |-> PyInt(5), is_checked_out |-> PyBool(TRUE),
     due_date |-> PyStr(D_2025_01_15), id |-> PyInt(2)],
    [cls |-> "Item", title |-> PyStr(<<"X">>), is_checked_out |-> PyBool(FALSE),
     due_date |-> None, id |-> None] }

\* rows of the backing file
BookRow(id, out, due) ==
  PyDict(("id" :> id) @@ ("title" :> PyStr(<<"A">>)) @@ ("is_checked_out" :> out)
         @@ ("due_date" :> due) @@ ("item_type" :> PyStr(BookName))
         @@ ("type" :> PyStr(BookName)) @@ ("author" :> PyStr(<<"O">>))
         @@ ("pages" :> PyInt(328)))

\* a DVD row in the legacy layout: only "type" and "duration_minutes"
DVDRow(id, out, due) ==
  PyDict(("id" :> id) @@ ("title" :> PyStr(<<" ", "I">>)) @@ ("is_checked_out" :> out)
         @@ ("due_date" :> due) @@ ("type" :> PyStr(DVDName))
         @@ ("duration_minutes" :> PyStr(<<"1", "4", "8">>)) @@ ("rating" :> PyFloat(4)))

Absent == [k |-> "absent", v |-> 0]
Garbage == [k |-> "garbage", v |-> 0]

\* contents of the backing file when the process starts
InitFiles ==
  { Absent, Garbage, PyList(<<>>), None, PyDict(<<>>),
    PyList(<<BookRow(PyInt(7), PyBool(FALSE), None),
              DVDRow(PyInt(3), PyBool(TRUE), PyStr(D_padded))>>),
    PyList(<<BookRow(PyStr(<<"2">>), PyBool(FALSE), PyStr(<<>>)),
             DVDRow(PyInt(2), PyBool(FALSE), None)>>),
    PyList(<<BookRow(PyInt(1), PyBool(TRUE), None)>>),
    PyList(<<DVDRow(PyInt(2), PyBool(FALSE), PyStr(D_2025_2_1))>>),
    PyList(<<BookRow(PyInt(1), PyBool(FALSE), None),
             BookRow(PyInt(2), PyStr(<<"y", "e", "s">>), PyStr(D_slashes))>>),
    PyList(<<BookRow(PyInt(1), PyBool(FALSE), PyList(<<>>))>>),
    PyList(<<DVDRow(PyInt(1), PyBool(FALSE), None),
             BookRow(PyInt(2), PyBool(TRUE), PyStr(D_slashes))>>),
    PyList(<<BookRow(PyInt(0), PyBool(FALSE), None)>>) }

\* ------------------------------------------------------------------- state
VARIABLES
  items,       \* LibraryRepository.items
  file,        \* content of the file at json_path
  idCounter,   \* Item._id_counter (class attribute, process wide)
  held,        \* an item the caller constructed and still holds, or NoItem
  repoExists,  \* the LibraryRepository constructor has returned
  pc,          \* "idle", or "prompt" while _prompt_reset_invalid_json waits
  view,        \* the list get_all_items returned to the caller, or NoView
  other,       \* a second LibraryRepository of the process, on another path
  lastOp       \* history: the call that produced this state

vars == <<items, file, idCounter, held, repoExists, pc, view, other, lastOp>>

NoItem == [cls |-> "none"]

\* A list the caller holds: `obj` tells whether it is a list of its own or
\* the very list object of the repository, `seq` is its content.
NoView == [obj |-> "none", seq |-> <<>>]

\* the second repository before it is made
NoRepository == [exists |-> FALSE, items |-> <<>>, file |-> [k |-> "absent", v |-> 0]]

\* no exception, and the JSONDecodeError of json.load
NoError == [ok |-> TRUE, exc |-> "none", row |-> 0, field |-> "none"]
DecodeError == Raise("JSONDecodeError", 0, "json")

Init ==
  /\ items = <<>>
  /\ file \in InitFiles
  /\ idCounter = 1
  /\ held = NoItem
  /\ repoExists = FALSE
  /\ pc = "idle"
  /\ view = NoView
  /\ other = NoRepository
  /\ lastOp = [op |-> "none"]

\* ----------------------------------------------------------------- actions
\* what save_items writes: json.dump of [item.to_dict() for item in self.items]
Serialized(its) == PyList([i \in 1..Len(its) |-> PyDict(to_dict(its[i]))])

\* [Item.from_dict(blob) for blob in normalized_rows], threading the id counter
RECURSIVE DeserializeAll(_, _)
DeserializeAll(rows, counter) ==
  IF rows = <<>> THEN [ok |-> TRUE, items |-> <<>>, counter |-> counter]
  ELSE LET first == from_dict(rows[1].v, counter)
       IN IF ~first.ok THEN [ok |-> FALSE, items |-> <<>>, counter |-> counter]
          ELSE LET rest == DeserializeAll(Tail(rows), first.val.counter)
               IN [ok |-> rest.ok, items |-> <<first.val.item>> \o rest.items,
                   counter |-> rest.counter]

\* History of a repository made at a path with no file: the number of items
\* that were constructed without an id and added to it, when nothing else
\* was called since it was made; -1 otherwise.
FreshAdds ==
  IF lastOp.op = "load" /\ lastOp.outcome = "missing" /\ pc = "idle" THEN 0
  ELSE IF lastOp.op = "add" THEN lastOp.fresh
  ELSE -1

\* The caller constructs Item(...), Book(...) or DVD(...).
ConstructItem(args) ==
  /\ pc = "idle"
  /\ view' = NoView
  /\ other' = other
  /\ IsNone(args.id) => idCounter <= MaxCounter
  /\ held' = post_init(args, idCounter).item
  /\ idCounter' = post_init(args, idCounter).counter
  /\ lastOp' = [op |-> "construct", explicit |-> ~IsNone(args.id),
                fresh |-> IF IsNone(args.id) THEN FreshAdds ELSE -1]
  /\ UNCHANGED <<items, file, repoExists, pc>>

\* held.check_out(due_date)
CheckOut(due_date) ==
  /\ pc = "idle"
  /\ view' = NoView
  /\ other' = other
  /\ held # NoItem
  /\ held' = check_out(held, due_date).item
  /\ lastOp' = [op |-> "check_out", arg |-> due_date, pre |-> held,
                raised |-> check_out(held, due_date).raised]
  /\ UNCHANGED <<items, file, idCounter, repoExists, pc>>

\* held.return_item(); the history also keeps the item as it was before a
\* successful check_out that immediately preceded this call
ReturnItem ==
  /\ pc = "idle"
  /\ view' = NoView
  /\ other' = other
  /\ held # NoItem
  /\ held' = return_item(held).item
  /\ lastOp' = [op |-> "return_item", pre |-> held,
                raised |-> return_item(held).raised,
                before |-> IF lastOp.op = "check_out" /\ ~lastOp.raised
                           THEN lastOp.pre ELSE NoItem]
  /\ UNCHANGED <<items, file, idCounter, repoExists, pc>>

\* the history record of a load_items call
LoadRecord(outcome, err) ==
  [op |-> "load", outcome |-> outcome, preCounter |-> idCounter, err |-> err,
   prompts |-> IF outcome = "prompt" THEN 1 ELSE 0]

\* load_items that empties the collection before it asks
LoadParsed_clearing(current, rows, made) ==
  IF rows.ok /\ made.ok
  THEN /\ items' = made.items
       /\ idCounter' = sync_id_counter(made.items)
       /\ repoExists' = TRUE
       /\ lastOp' = LoadRecord("loaded", NoError)
       /\ UNCHANGED <<file, pc>>
  ELSE /\ items' = <<>>
       /\ pc' = "prompt"
       /\ lastOp' = LoadRecord("prompt", rows)
       /\ UNCHANGED <<file, idCounter, repoExists>>

\* lines 274-288 of load_items: `rows` is the outcome of _normalize_rows and
\* `made` the outcome of the from_dict calls
LoadParsed(current, rows, made) ==
  IF rows.ok /\ made.ok
  THEN /\ items' = made.items
       /\ idCounter' = sync_id_counter(made.items)
       /\ repoExists' = TRUE
       /\ lastOp' = LoadRecord("loaded", NoError)
       /\ UNCHANGED <<file, pc>>
  ELSE IF rows.exc = "ValueError"
  THEN /\ items' = current
       /\ pc' = "prompt"
       /\ lastOp' = LoadRecord("prompt", rows)
       /\ UNCHANGED <<file, idCounter, repoExists>>
  ELSE /\ items' = current
       /\ lastOp' = LoadRecord("error", rows)
       /\ UNCHANGED <<file, idCounter, repoExists, pc>>

\* [Item.from_dict(blob) for blob in normalized_rows] when normalization passed
DeserializeRows(rows) ==
  IF rows.ok THEN DeserializeAll(rows.val, idCounter)
  ELSE [ok |-> FALSE, items |-> <<>>, counter |-> idCounter]

LoadRows(current, rows) == LoadParsed(current, rows, DeserializeRows(rows))

\* load_items that leaves a missing file missing
LoadBody_without_save(current) ==
  IF file = Absent
  THEN /\ items' = <<>>
       /\ repoExists' = TRUE
       /\ lastOp' = LoadRecord("missing", NoError)
       /\ UNCHANGED <<file, idCounter, pc>>
  ELSE IF file = Garbage
  THEN /\ items' = current
       /\ pc' = "prompt"
       /\ lastOp' = LoadRecord("prompt", DecodeError)
       /\ UNCHANGED <<file, idCounter, repoExists>>
  ELSE LoadRows(current, normalize_rows(file))

\* The body of load_items, run on a repository whose collection is `current`.
LoadBody(current) ==
  IF file = Absent
  THEN /\ items' = <<>>
       /\ file' = Serialized(<<>>)
       /\ repoExists' = TRUE
       /\ lastOp' = LoadRecord("missing", NoError)
       /\ UNCHANGED <<idCounter, pc>>
  ELSE IF file = Garbage
  THEN /\ items' = current
       /\ pc' = "prompt"
       /\ lastOp' = LoadRecord("prompt", DecodeError)
       /\ UNCHANGED <<file, idCounter, repoExists>>
  ELSE LoadRows(current, normalize_rows(file))

\* LibraryRepository(json_path): self.items = [] and then load_items()
NewRepository ==
  /\ pc = "idle"
  /\ view' = NoView
  /\ other' = other
  /\ ~repoExists
  /\ held' = held
  /\ LoadBody(<<>>)

\* repo.load_items() on the existing repository
LoadItems ==
  /\ pc = "idle"
  /\ view' = NoView
  /\ other' = other
  /\ repoExists
  /\ held' = held
  /\ LoadBody(items)

\* a recovery that clears the collection and leaves the file as it is
AnswerPrompt_without_save(yes) ==
  /\ pc = "prompt"
  /\ view' = NoView
  /\ other' = other
  /\ pc' = "idle"
  /\ IF yes
     THEN /\ items' = <<>>
          /\ repoExists' = TRUE
          /\ lastOp' = [lastOp EXCEPT !.outcome = "reset"]
          /\ UNCHANGED file
     ELSE /\ lastOp' = [lastOp EXCEPT !.outcome = "declined"]
          /\ UNCHANGED <<items, file, repoExists>>
  /\ UNCHANGED <<idCounter, held>>

\* The user answers the recovery prompt: yes resets, no re-raises.
AnswerPrompt(yes) ==
  /\ pc = "prompt"
  /\ view' = NoView
  /\ other' = other
  /\ pc' = "idle"
  /\ IF yes
     THEN /\ items' = <<>>
          /\ file' = Serialized(<<>>)
          /\ repoExists' = TRUE
          /\ lastOp' = [lastOp EXCEPT !.outcome = "reset"]
     ELSE /\ lastOp' = [lastOp EXCEPT !.outcome = "declined"]
          /\ UNCHANGED <<items, file, repoExists>>
  /\ UNCHANGED <<idCounter, held>>

\* lines typed at the console prompt
ConsoleInputs ==
  { <<"y">>, <<" ", "Y", "E", "S", " ">>, <<"n">>, <<"N", "o">>, <<>>,
    <<"y", "e", "a", "h">>, <<"0">> }

\* a console prompt that takes every line but y and yes for a no
ConsoleAnswer_default_no(text) ==
  /\ pc = "prompt"
  /\ IF Lower(Strip(text)) \in {<<"y">>, <<"y", "e", "s">>}
     THEN AnswerPrompt(TRUE)
     ELSE AnswerPrompt(FALSE)

\* The `while True` loop of _prompt_reset_invalid_json, one line of input:
\* y or yes and n or no return the answer, any other line asks again.
ConsoleAnswer(text) ==
  /\ pc = "prompt"
  /\ IF Lower(Strip(text)) \in {<<"y">>, <<"y", "e", "s">>}
     THEN AnswerPrompt(TRUE)
     ELSE IF Lower(Strip(text)) \in {<<"n">>, <<"n", "o">>}
     THEN AnswerPrompt(FALSE)
     ELSE /\ lastOp' = [lastOp EXCEPT !.prompts =
                          IF @ < MaxPrompts THEN @ + 1 ELSE @]
          /\ view' = NoView
          /\ other' = other
          /\ UNCHANGED <<items, file, idCounter, held, repoExists, pc>>

\* self.items.append(item) of add_item
add_item(its, item) == Append(its, item)

\* the list comprehension of delete_item
delete_item(its, item_id) == SelectSeq(its, LAMBDA it : it.id # item_id)

\* the history record of an add_item call
AddRecord ==
  [op |-> "add",
   fresh |-> IF lastOp.op = "construct" /\ lastOp.fresh >= 0
             THEN lastOp.fresh + 1 ELSE -1]

\* repo.add_item(item) with the held item; the caller then drops its reference
AddItem ==
  /\ pc = "idle"
  /\ view' = NoView
  /\ other' = other
  /\ repoExists
  /\ held # NoItem
  /\ Len(items) < MaxItems
  /\ items' = add_item(items, held)
  /\ file' = Serialized(items')
  /\ held' = NoItem
  /\ lastOp' = AddRecord
  /\ UNCHANGED <<idCounter, repoExists, pc>>

\* a delete_item that also drops the items with a larger id
DeleteItem_and_larger(item_id) ==
  /\ pc = "idle"
  /\ view' = NoView
  /\ other' = other
  /\ repoExists
  /\ items' = SelectSeq(items, LAMBDA it : it.id.v < item_id)
  /\ file' = Serialized(items')
  /\ lastOp' = [op |-> "delete", id |-> item_id,
                removed |-> Len(items) - Len(items')]
  /\ UNCHANGED <<idCounter, held, repoExists, pc>>

\* repo.delete_item(item_id)
DeleteItem(item_id) ==
  /\ pc = "idle"
  /\ view' = NoView
  /\ other' = other
  /\ repoExists
  /\ items' = delete_item(items, PyInt(item_id))
  /\ file' = Serialized(items')
  /\ lastOp' = [op |-> "delete", id |-> item_id,
                removed |-> Len(items) - Len(items')]
  /\ UNCHANGED <<idCounter, held, repoExists, pc>>

\* a get_all_items that hands out the list object of the repository
get_all_items_same_list(its) ==
  [obj |-> "self.items", seq |-> its]

\* repo.get_all_items(): a new list with the items of the collection
get_all_items(its) ==
  [obj |-> "new", seq |-> [i \in 1..Len(its) |-> its[i]]]

\* the caller keeps the list that repo.get_all_items() returns
GetAllItems ==
  /\ pc = "idle"
  /\ repoExists
  /\ view' = get_all_items(items)
  /\ other' = other
  /\ lastOp' = [op |-> "get_all"]
  /\ UNCHANGED <<items, file, idCounter, held, repoExists, pc>>

\* list.append(x), list.pop(0) and list.reverse() on a list `l`
ListMutations == {"append", "pop", "reverse"}
Mutated(l, how, x) ==
  IF how = "append" THEN Append(l, x)
  ELSE IF how = "pop" THEN Tail(l)
  ELSE [i \in 1..Len(l) |-> l[Len(l) + 1 - i]]

\* The caller changes the list it got from get_all_items, right after the
\* call.  A change of the repository's own list object shows in `items`.
MutateView(how) ==
  /\ pc = "idle"
  /\ lastOp.op = "get_all"
  /\ how = "append" => held # NoItem
  /\ how = "pop" => view.seq # <<>>
  /\ how = "reverse" => Len(view.seq) >= 2
  /\ view' = [view EXCEPT !.seq = Mutated(view.seq, how, held)]
  /\ other' = other
  /\ items' = IF view.obj = "self.items" THEN view'.seq ELSE items
  /\ lastOp' = [op |-> "mutate_view", how |-> how]
  /\ UNCHANGED <<file, idCounter, held, repoExists, pc>>

\* The file at json_path is removed from outside the process.
FileRemoved ==
  /\ pc = "idle"
  /\ view' = NoView
  /\ other' = other
  /\ repoExists
  /\ file # Absent
  /\ file' = Absent
  /\ lastOp' = [op |-> "file_removed"]
  /\ UNCHANGED <<items, idCounter, held, repoExists, pc>>

\* Item.from_dict(held.to_dict()): the copy is recorded in the history
RoundTrip ==
  /\ pc = "idle"
  /\ view' = NoView
  /\ other' = other
  /\ held # NoItem
  /\ LET r == from_dict(to_dict(held), idCounter)
     IN /\ idCounter' = IF r.ok THEN r.val.counter ELSE idCounter
        /\ lastOp' = [op |-> "round_trip", pre |-> held, raised |-> ~r.ok,
                      result |-> IF r.ok THEN r.val.item ELSE NoItem,
                      preCounter |-> idCounter]
  /\ UNCHANGED <<items, file, held, repoExists, pc>>

\* ------------------------------------------------------------ LibraryApp
\* repo.get_item_by_id(item_id): the position of the first item with that id
\* (the item object itself is shared with the collection), 0 for None
get_item_by_id(its, item_id) ==
  IF \E i \in 1..Len(its) : its[i].id = item_id
  THEN SetMin({i \in 1..Len(its) : its[i].id = item_id})
  ELSE 0

\* _get_selected_item with table row `row` selected (0: no selection); the
\* row's iid is str(item.id)
get_selected_item(row) ==
  IF row = 0 THEN 0 ELSE get_item_by_id(items, items[row].id)

\* the texts of the entries of a form; values.get(key, "")
EntryText(values, key) == IF key \in DOMAIN values THEN values[key] ELSE <<>>

\* _coerce_positive_int_from_entry(value, field_label)
coerce_positive_int_from_entry(value, field_label) ==
  Bind(PyIntOf(PyStr(value)), LAMBDA number :
    IF number <= 0 THEN Raise("ValueError", 0, field_label) ELSE Ok(PyInt(number)))

\* _validate_book_payload(values)
validate_book_payload(values) ==
  IF Strip(EntryText(values, "title")) = <<>> THEN Raise("ValueError", 0, "title")
  ELSE IF Strip(EntryText(values, "author")) = <<>>
  THEN Raise("ValueError", 0, "author")
  ELSE Bind(coerce_positive_int_from_entry(EntryText(values, "pages"), "pages"),
            LAMBDA pages :
              Ok([title |-> PyStr(Strip(EntryText(values, "title"))),
                  author |-> PyStr(Strip(EntryText(values, "author"))),
                  pages |-> pages]))

\* _validate_dvd_payload(values)
validate_dvd_payload(values) ==
  IF Strip(EntryText(values, "title")) = <<>> THEN Raise("ValueError", 0, "title")
  ELSE Bind(coerce_positive_int_from_entry(EntryText(values, "duration"), "duration"),
            LAMBDA duration :
       Bind(coerce_positive_int_from_entry(EntryText(values, "rating"), "rating"),
            LAMBDA rating :
              IF ~(1 <= rating.v /\ rating.v <= 5)
              THEN Raise("ValueError", 0, "rating")
              ELSE Ok([title |-> PyStr(Strip(EntryText(values, "title"))),
                       duration |-> duration, rating |-> rating])))

\* the entries of the form of an item type
FormFields(item_type) ==
  IF item_type = BookName THEN {"title", "author", "pages"}
  ELSE {"title", "duration", "rating"}

validate_payload(item_type, values) ==
  IF item_type = BookName THEN validate_book_payload(values)
  ELSE validate_dvd_payload(values)

\* Book(**payload) and DVD(**payload): the constructor arguments
PayloadArgs(item_type, payload) ==
  IF item_type = BookName
  THEN [cls |-> "Book", title |-> payload.title, author |-> payload.author,
        pages |-> payload.pages, is_checked_out |-> PyBool(FALSE),
        due_date |-> None, id |-> None]
  ELSE [cls |-> "DVD", title |-> payload.title, duration |-> payload.duration,
        rating |-> payload.rating, is_checked_out |-> PyBool(FALSE),
        due_date |-> None, id |-> None]

\* the assignments of submit() to the fields of the edited item
AssignPayload(it, item_type, payload) ==
  IF item_type = BookName
  THEN [it EXCEPT !.title = payload.title, !.author = payload.author,
                  !.pages = payload.pages]
  ELSE [it EXCEPT !.title = payload.title, !.duration = payload.duration,
                  !.rating = payload.rating]

\* texts typed into the forms
T_B == <<" ", "B">>
T_P == <<"P">>
BookForm(title, author, pages) ==
  ("title" :> title) @@ ("author" :> author) @@ ("pages" :> pages)
DVDForm(title, duration, rating) ==
  ("title" :> title) @@ ("duration" :> duration) @@ ("rating" :> rating)
Forms ==
  { BookForm(T_B, T_P, <<" ", "7">>), BookForm(<<" ">>, T_P, <<"7">>),
    BookForm(T_B, <<>>, <<"7">>), BookForm(T_B, T_P, <<"0">>),
    BookForm(T_B, T_P, <<"7", ".", "5">>), BookForm(T_B, T_P, <<>>),
    DVDForm(T_B, <<"9", "0">>, <<"5">>), DVDForm(<<>>, <<"9", "0">>, <<"5">>),
    DVDForm(T_B, <<"-", "9">>, <<"5">>), DVDForm(T_B, <<"x">>, <<"5">>),
    DVDForm(T_B, <<"9", "0">>, <<"6">>), DVDForm(T_B, <<"9", "0">>, <<"0">>),
    DVDForm(T_B, <<"9", "0">>, <<"g">>) }

\* answers to the due date dialog; None is Cancel
DueDateEntries ==
  {None, PyStr(D_padded), PyStr(<<>>), PyStr(<<" ">>), PyStr(D_feb30),
   PyStr(D_slashes)}

\* The history record of a callback.  `call` holds its name and its inputs
\* (the texts typed, the answers given); `status` tells how it ended: "done",
\* "rejected" (an error box was shown), "nothing" (no selection or a
\* cancelled dialog), "escaped" (an exception left the callback); `target`
\* is the position of the selected item.
UiCall(op, input) == [op |-> op, input |-> input]
UiRecord(call, status, target) ==
  [op |-> call.op, input |-> call.input, status |-> status, target |-> target]

\* `except ValueError` of the callbacks
Caught(r) == IF r.exc = "ValueError" THEN "rejected" ELSE "escaped"

UiUnchanged(call, status, target) ==
  /\ lastOp' = UiRecord(call, status, target)
  /\ UNCHANGED <<items, file, idCounter>>

\* the item at position k was changed to `it` and nothing is written
UiSaved_without_save(call, k, it) ==
  /\ items' = [items EXCEPT ![k] = it]
  /\ lastOp' = UiRecord(call, "done", k)
  /\ UNCHANGED <<file, idCounter>>

\* the item at position k was changed to `it`, then repo.save_items()
UiSaved(call, k, it) ==
  /\ items' = [items EXCEPT ![k] = it]
  /\ file' = Serialized(items')
  /\ lastOp' = UiRecord(call, "done", k)
  /\ UNCHANGED idCounter

\* a check_out_item that hands the text of the dialog to item.check_out as
\* it is
CheckOutSelected_unvalidated(call, k, due_date, date) ==
  IF k = 0 THEN UiUnchanged(call, "nothing", k)
  ELSE IF PyTruthy(items[k].is_checked_out) THEN UiUnchanged(call, "rejected", k)
  ELSE IF IsNone(due_date) THEN UiUnchanged(call, "nothing", k)
  ELSE IF check_out(items[k], due_date).raised
  THEN /\ items' = [items EXCEPT ![k] = check_out(items[k], due_date).item]
       /\ lastOp' = UiRecord(call, "rejected", k)
       /\ UNCHANGED <<file, idCounter>>
  ELSE UiSaved(call, k, check_out(items[k], due_date).item)

\* LibraryApp.check_out_item with the selected item at position k; `date` is
\* the outcome of ensure_due_date_string(due_date)
CheckOutSelected(call, k, due_date, date) ==
  IF k = 0 THEN UiUnchanged(call, "nothing", k)
  ELSE IF PyTruthy(items[k].is_checked_out) THEN UiUnchanged(call, "rejected", k)
  ELSE IF IsNone(due_date) THEN UiUnchanged(call, "nothing", k)
  ELSE IF ~date.ok THEN UiUnchanged(call, Caught(date), k)
  ELSE IF check_out(items[k], date.val).raised
  THEN /\ items' = [items EXCEPT ![k] = check_out(items[k], date.val).item]
       /\ lastOp' = UiRecord(call, "rejected", k)
       /\ UNCHANGED <<file, idCounter>>
  ELSE UiSaved(call, k, check_out(items[k], date.val).item)

\* LibraryApp.check_out_item
UiCheckOut(row, due_date) ==
  /\ pc = "idle"
  /\ repoExists
  /\ CheckOutSelected(UiCall("ui_check_out", due_date), get_selected_item(row),
                      due_date, ensure_due_date_string(due_date))
  /\ view' = NoView
  /\ other' = other
  /\ UNCHANGED <<held, repoExists, pc>>

ReturnSelected(call, k) ==
  IF k = 0 THEN UiUnchanged(call, "nothing", k)
  ELSE IF ~PyTruthy(items[k].is_checked_out) THEN UiUnchanged(call, "rejected", k)
  ELSE IF return_item(items[k]).raised THEN UiUnchanged(call, "escaped", k)
  ELSE UiSaved(call, k, return_item(items[k]).item)

\* LibraryApp.return_item
UiReturn(row) ==
  /\ pc = "idle"
  /\ repoExists
  /\ ReturnSelected(UiCall("ui_return", None), get_selected_item(row))
  /\ view' = NoView
  /\ other' = other
  /\ UNCHANGED <<held, repoExists, pc>>

DeleteSelected(call, k) ==
  IF k = 0 \/ ~call.input THEN UiUnchanged(call, "nothing", k)
  ELSE /\ items' = delete_item(items, PyInt(IdOrZero(items[k])))
       /\ file' = Serialized(items')
       /\ lastOp' = UiRecord(call, "done", k)
       /\ UNCHANGED idCounter

\* LibraryApp.delete_item; `confirmed` is the answer to askyesno
UiDelete(row, confirmed) ==
  /\ pc = "idle"
  /\ repoExists
  /\ DeleteSelected(UiCall("ui_delete", confirmed), get_selected_item(row))
  /\ view' = NoView
  /\ other' = other
  /\ UNCHANGED <<held, repoExists, pc>>

\* submit() of the Add form: repo.add_item(Book(**payload)) or DVD
SubmitAdd(call, item_type, payload) ==
  IF ~payload.ok THEN UiUnchanged(call, Caught(payload), 0)
  ELSE /\ items' = add_item(items, post_init(PayloadArgs(item_type, payload.val),
                                             idCounter).item)
       /\ idCounter' = post_init(PayloadArgs(item_type, payload.val),
                                 idCounter).counter
       /\ file' = Serialized(items')
       /\ lastOp' = UiRecord(call, "done", Len(items'))

\* LibraryApp.add_book / add_dvd and Save in the form
UiAdd(item_type, values) ==
  /\ pc = "idle"
  /\ repoExists
  /\ Len(items) < MaxItems
  /\ idCounter <= MaxCounter
  /\ DOMAIN values = FormFields(item_type)
  /\ SubmitAdd(UiCall("ui_add", values), item_type,
               validate_payload(item_type, values))
  /\ view' = NoView
  /\ other' = other
  /\ UNCHANGED <<held, repoExists, pc>>

\* submit() of the Edit form of the item at position k
SubmitEdit(call, k, item_type, payload) ==
  IF ~payload.ok THEN UiUnchanged(call, Caught(payload), k)
  ELSE UiSaved(call, k, AssignPayload(items[k], item_type, payload.val))

\* _open_item_form(item.__class__.__name__, item) for the item at position
\* k: an item that is neither a Book nor a DVD gets the "Unsupported" box
EditSelected(call, k) ==
  IF k = 0 THEN UiUnchanged(call, "nothing", 0)
  ELSE IF ClassName(items[k]) \notin VALID_ITEM_TYPES
  THEN UiUnchanged(call, "rejected", k)
  ELSE /\ DOMAIN call.input = FormFields(ClassName(items[k]))
       /\ SubmitEdit(call, k, ClassName(items[k]),
                     validate_payload(ClassName(items[k]), call.input))

\* LibraryApp.edit_item and Save in the form
UiEdit(row, values) ==
  /\ pc = "idle"
  /\ repoExists
  /\ EditSelected(UiCall("ui_edit", values), get_selected_item(row))
  /\ view' = NoView
  /\ other' = other
  /\ UNCHANGED <<held, repoExists, pc>>

\* contents of the backing file when the application starts
UiFiles ==
  { Absent, Garbage,
    PyList(<<BookRow(PyInt(7), PyBool(FALSE), None),
              DVDRow(PyInt(3), PyBool(TRUE), PyStr(D_padded))>>),
    PyList(<<DVDRow(PyInt(1), PyBool(FALSE), None),
             BookRow(PyInt(2), PyBool(TRUE), PyStr(D_2025_01_15))>>),
    PyList(<<BookRow(PyInt(1), PyBool(TRUE), None)>>),
    PyList(<<DVDRow(PyInt(2), PyBool(FALSE), PyStr(D_2025_2_1))>>),
    PyList(<<DVDRow(PyInt(1), PyBool(FALSE), None),
             BookRow(PyInt(2), PyBool(TRUE), PyStr(D_slashes))>>),
    PyList(<<BookRow(PyInt(1), PyBool(FALSE), PyList(<<>>))>>) }

InitUi ==
  /\ items = <<>>
  /\ file \in UiFiles
  /\ idCounter = 1
  /\ held = NoItem
  /\ repoExists = FALSE
  /\ pc = "idle"
  /\ view = NoView
  /\ other = NoRepository
  /\ lastOp = [op |-> "none"]

\* The application: the repository is made at start, then the callbacks run.
NextUi ==
  \/ NewRepository
  \/ \E yes \in BOOLEAN : AnswerPrompt(yes)
  \/ \E item_type \in VALID_ITEM_TYPES, values \in Forms : UiAdd(item_type, values)
  \/ \E row \in 0..Len(items), values \in Forms : UiEdit(row, values)
  \/ \E row \in 0..Len(items), confirmed \in BOOLEAN : UiDelete(row, confirmed)
  \/ \E row \in 0..Len(items), due_date \in DueDateEntries : UiCheckOut(row, due_date)
  \/ \E row \in 0..Len(items) : UiReturn(row)

SpecUi == InitUi /\ [][NextUi]_vars

\* The repository: construction of items, load, recovery prompt, add, delete.
Next ==
  \/ \E args \in CtorArgs : ConstructItem(args)
  \/ NewRepository
  \/ LoadItems
  \/ \E yes \in BOOLEAN : AnswerPrompt(yes)
  \/ AddItem
  \/ \E item_id \in 1..(MaxCounter + 1) : DeleteItem(item_id)
  \/ FileRemoved

Spec == Init /\ [][Next]_vars

\* contents of the file of the second repository: files that load_items
\* takes without asking
OtherFiles ==
  { Absent, PyList(<<>>),
    PyList(<<BookRow(PyInt(1), PyBool(FALSE), None)>>),
    PyList(<<DVDRow(PyInt(1), PyBool(FALSE), None),
             BookRow(PyInt(2), PyBool(TRUE), PyStr(D_2025_01_15))>>) }

\* lines 271-276 of load_items in the second repository
OtherLoaded(f, rows, made) ==
  /\ rows.ok /\ made.ok
  /\ other' = [exists |-> TRUE, items |-> made.items, file |-> f]
  /\ idCounter' = sync_id_counter(made.items)
  /\ lastOp' = [op |-> "load_other", loaded |-> Len(made.items)]

OtherRows(f, rows) == OtherLoaded(f, rows, DeserializeRows(rows))

\* LibraryRepository(other_path) while the first repository exists; the file
\* at other_path holds f
OtherRepository(f) ==
  /\ pc = "idle"
  /\ repoExists
  /\ ~other.exists
  /\ IF f = Absent
     THEN /\ other' = [exists |-> TRUE, items |-> <<>>, file |-> Serialized(<<>>)]
          /\ lastOp' = [op |-> "load_other", loaded |-> 0]
          /\ UNCHANGED idCounter
     ELSE OtherRows(f, normalize_rows(f))
  /\ view' = NoView
  /\ UNCHANGED <<items, file, held, repoExists, pc>>

\* Two repositories in one process.
NextTwo ==
  \/ \E args \in CtorArgs : ConstructItem(args)
  \/ NewRepository
  \/ \E yes \in BOOLEAN : AnswerPrompt(yes)
  \/ AddItem
  \/ \E f \in OtherFiles : OtherRepository(f)

SpecTwo == Init /\ [][NextTwo]_vars

\* Loads of a repository whose user answers the recovery prompt, through the
\* dialog or at the console.
NextPrompt ==
  \/ \E args \in CtorArgs : ConstructItem(args)
  \/ NewRepository
  \/ LoadItems
  \/ AddItem
  \/ \E yes \in BOOLEAN : AnswerPrompt(yes)
  \/ \E text \in ConsoleInputs : ConsoleAnswer(text)

\* The user eventually gives an answer that is a yes or a no.
SpecPrompt ==
  /\ Init
  /\ [][NextPrompt]_vars
  /\ WF_vars(\E yes \in BOOLEAN : AnswerPrompt(yes))

\* A caller that fills a repository, asks for the list of its items and
\* changes the list it got.
NextView ==
  \/ \E args \in CtorArgs : ConstructItem(args)
  \/ NewRepository
  \/ \E yes \in BOOLEAN : AnswerPrompt(yes)
  \/ AddItem
  \/ GetAllItems
  \/ \E how \in ListMutations : MutateView(how)

SpecView == Init /\ [][NextView]_vars

\* The item model alone: an item is constructed, checked out and returned.
NextItem ==
  \/ \E args \in CtorArgs : ConstructItem(args)
  \/ \E d \in DueDateArgs : CheckOut(d)
  \/ ReturnItem
  \/ RoundTrip

SpecItem == Init /\ [][NextItem]_vars

\* ------------------------------------------------------------- properties
\* a string datetime.strptime accepts as %Y-%m-%d
ValidDateString(x) == IsStr(x) /\ StrptimeOk(x.v)

\* the checkout invariant of the data model
CheckoutInvariant(it) ==
  /\ it.is_checked_out = PyBool(TRUE) => ValidDateString(it.due_date)
  /\ it.is_checked_out = PyBool(FALSE) => IsNone(it.due_date)

\* a due date argument check_out has to accept
ValidDueDateArg(d) == IsStr(d) /\ StrptimeOk(Strip(d.v))

\* C1: after every call of check_out or return_item, returning or raising, on
\* an item that satisfied the checkout invariant, the item satisfies it: checked
\* out implies a valid due date, not checked out implies due_date null.
C1_InvariantAfterTransition ==
  (lastOp.op \in {"check_out", "return_item"} /\ CheckoutInvariant(lastOp.pre))
    => CheckoutInvariant(held)

\* C3: check_out on an item that is not checked out validates the due date
\* first: with a valid date it succeeds and sets is_checked_out and due_date,
\* with an empty or malformed date it raises and the item stays not checked
\* out with due_date null.
C3_CheckOutValidatesFirst ==
  (/\ lastOp.op = "check_out"
   /\ lastOp.pre.is_checked_out = PyBool(FALSE)
   /\ IsNone(lastOp.pre.due_date))
    => IF ValidDueDateArg(lastOp.arg)
       THEN /\ ~lastOp.raised
            /\ held.is_checked_out = PyBool(TRUE)
            /\ held.due_date = PyStr(Strip(lastOp.arg.v))
       ELSE /\ lastOp.raised
            /\ held.is_checked_out = PyBool(FALSE)
            /\ IsNone(held.due_date)

\* C4: a transition called on an item already in the target state raises and
\* leaves the item as it was: check_out on a checked-out item (any due date),
\* return_item on an item that is not checked out.
C4_RejectedTransitionChangesNothing ==
  /\ (lastOp.op = "check_out" /\ lastOp.pre.is_checked_out = PyBool(TRUE))
       => (lastOp.raised /\ held = lastOp.pre)
  /\ (lastOp.op = "return_item" /\ lastOp.pre.is_checked_out = PyBool(FALSE))
       => (lastOp.raised /\ held = lastOp.pre)

\* a checked-out item was asked to check out again with a valid date
C4_Witness ==
  /\ lastOp.op = "check_out"
  /\ lastOp.pre.is_checked_out = PyBool(TRUE)
  /\ ValidDueDateArg(lastOp.arg)
  /\ lastOp.arg.v # lastOp.pre.due_date.v
  /\ lastOp.raised

\* C5: check_out with a valid date followed immediately by return_item leaves
\* the item not checked out with due_date null and every other field as it
\* was before the check_out.
C5_CheckOutThenReturnRestores ==
  (lastOp.op = "return_item" /\ lastOp.before # NoItem)
    => /\ ~lastOp.raised
       /\ held = [lastOp.before EXCEPT !.is_checked_out = PyBool(FALSE),
                                       !.due_date = None]

\* an item was checked out with a date and returned in the next call
C5_Witness ==
  /\ lastOp.op = "return_item"
  /\ lastOp.before # NoItem
  /\ lastOp.before.is_checked_out = PyBool(FALSE)
  /\ lastOp.pre.due_date = PyStr(D_2025_2_1)
  /\ lastOp.pre.cls = "DVD"

\* an item that satisfies every rule of the data model
ValidItem(it) ==
  /\ it.cls \in {"Book", "DVD"}
  /\ it.id.k = "int" /\ it.id.v > 0
  /\ IsStr(it.title) /\ Strip(it.title.v) # <<>>
  /\ it.is_checked_out.k = "bool"
  /\ CheckoutInvariant(it)
  /\ it.cls = "Book" =>
       /\ IsStr(it.author) /\ Strip(it.author.v) # <<>>
       /\ it.pages.k = "int" /\ it.pages.v > 0
  /\ it.cls = "DVD" =>
       /\ it.duration.k = "int" /\ it.duration.v > 0
       /\ it.rating.k = "int" /\ it.rating.v \in 1..5

\* C6: for every valid Book or DVD, from_dict(to_dict(item)) is an item of the
\* same class equal to the original on every field, and the id counter is not
\* consumed.
C6_RoundTripEquality ==
  (lastOp.op = "round_trip" /\ ValidItem(lastOp.pre))
    => /\ ~lastOp.raised
       /\ lastOp.result = lastOp.pre
       /\ idCounter = lastOp.preCounter

\* a checked-out DVD went through to_dict and from_dict
C6_Witness ==
  /\ lastOp.op = "round_trip"
  /\ ValidItem(lastOp.pre)
  /\ lastOp.pre.cls = "DVD"
  /\ lastOp.pre.is_checked_out = PyBool(TRUE)
  /\ lastOp.result.due_date = PyStr(D_2025_01_15)

\* C2: every item of a collection that load_items produced without the
\* recovery prompt satisfies the checkout invariant.
C2_LoadedItemsSatisfyInvariant ==
  (lastOp.op = "load" /\ lastOp.outcome = "loaded")
    => \A i \in 1..Len(items) : CheckoutInvariant(items[i])

\* C7: in every repository state every item of the collection has a positive
\* integer id and no two items share an id.
C7_IdsPositiveAndUnique ==
  /\ \A i \in 1..Len(items) : items[i].id.k = "int" /\ items[i].id.v > 0
  /\ \A i, j \in 1..Len(items) : i # j => items[i].id # items[j].id

\* C8: an item constructed without an explicit id after the most recent load
\* receives an id that no item of the collection has.
C8_FreshIdNotInCollection ==
  (lastOp.op = "construct" /\ ~lastOp.explicit /\ repoExists)
    => \A i \in 1..Len(items) : items[i].id # held.id

\* the largest id in a non-empty collection
MaxId(its) ==
  CHOOSE m \in {its[i].id.v : i \in 1..Len(its)} :
    \A i \in 1..Len(its) : its[i].id.v <= m

\* C9: after load_items loaded a non-empty store, the next item constructed
\* without an explicit id receives the largest loaded id plus one, whatever
\* the counter was before the load.
C9_NextIdAfterLoad ==
  (lastOp.op = "load" /\ lastOp.outcome = "loaded" /\ items # <<>>)
    => \A args \in CtorArgs :
         IsNone(args.id) =>
           post_init(args, idCounter).item.id = PyInt(MaxId(items) + 1)

\* a store whose largest id is not its last row was loaded and moved the counter
C9_Witness ==
  /\ lastOp.op = "load"
  /\ lastOp.outcome = "loaded"
  /\ Len(items) = 2
  /\ items[1].id.v = 7 /\ items[2].id.v = 3
  /\ idCounter = 8
  /\ lastOp.preCounter > 1

\* C10: when load_items ends with an empty collection because the file was
\* missing or the user accepted the reset, the id counter is 1.
C10_CounterOneAfterEmptyLoad ==
  (lastOp.op = "load" /\ lastOp.outcome \in {"missing", "reset"})
    => idCounter = 1


\* ---------------------------------------------------------------------
\* Loading: missing file, recovery prompt

\* a step of load_items up to its return, its raise or its prompt
LoadStep == pc = "idle" /\ lastOp'.op = "load"

\* C11: load_items (in the constructor or called again) on a path with no
\* file ends, without a prompt, with an empty collection and a file that
\* holds the empty JSON array.
C11_MissingFileInitializes ==
  [][(LoadStep /\ file = Absent) =>
       /\ lastOp'.outcome = "missing"
       /\ pc' = "idle"
       /\ repoExists'
       /\ items' = <<>>
       /\ file' = PyList(<<>>)]_vars

\* load_items found no file on a repository that had already handed out ids
C11_Witness ==
  /\ lastOp.op = "load"
  /\ lastOp.outcome = "missing"
  /\ idCounter > 1
  /\ items = <<>>
  /\ file = PyList(<<>>)

\* C12: when the prompt is answered with yes the load completes: the
\* collection is empty and the file holds the empty JSON array.
C12_ResetEmptiesCollectionAndFile ==
  (lastOp.op = "load" /\ lastOp.outcome = "reset") =>
    /\ pc = "idle"
    /\ repoExists
    /\ items = <<>>
    /\ file = PyList(<<>>)

\* a reset after the second row of the file failed normalization
C12_Witness ==
  /\ lastOp.op = "load"
  /\ lastOp.outcome = "reset"
  /\ lastOp.err.exc = "ValueError"
  /\ lastOp.err.row = 2
  /\ file = PyList(<<>>)

\* C13: from the failure of the load to the answer no, the file, the
\* collection and the id counter keep their values, and the error raised is
\* the one the load failed with.
C13_DeclinedLoadChangesNothing ==
  [][((LoadStep /\ pc' = "prompt")
        \/ (pc = "prompt" /\ lastOp'.outcome = "declined")) =>
       /\ UNCHANGED <<items, file, idCounter, repoExists>>
       /\ ~lastOp'.err.ok
       /\ pc = "prompt" => lastOp'.err = lastOp.err]_vars

\* the answer no on a repository that holds items and has handed out ids
C13_Witness ==
  /\ lastOp.op = "load"
  /\ lastOp.outcome = "declined"
  /\ items # <<>>
  /\ idCounter > 1
  /\ file # Garbage

\* a file load_items may return a collection for: a JSON array whose rows all
\* pass _normalize_json_row
AcceptableFile(f) ==
  /\ f.k = "list"
  /\ \A i \in 1..Len(f.v) : normalize_json_row(f.v[i], i - 1).ok

\* C14: load_items on an existing file that is not an array of rows passing
\* every normalizer rule always reaches the recovery prompt: it neither
\* returns a collection nor raises without asking.
C14_InvalidFileAlwaysPrompts ==
  [][(LoadStep /\ file # Absent /\ ~AcceptableFile(file)) => pc' = "prompt"]_vars

\* the rules of _normalize_json_row in their order, each taken alone
RuleOrder ==
  <<"entry", "id", "title", "is_checked_out", "due_date", "type",
    "author", "pages", "duration", "rating">>

RowType(d) == normalize_item_type(Get(d, "type"), Get(d, "item_type"), 0)

Violates(row, field) ==
  IF field = "entry" THEN row.k # "dict"
  ELSE IF row.k # "dict" THEN FALSE
  ELSE IF field = "id"
    THEN ~require_positive_int(Get(row.v, "id"), "id", 0, FALSE).ok
  ELSE IF field = "title" THEN ~require_string(Get(row.v, "title"), "title", 0).ok
  ELSE IF field = "is_checked_out"
    THEN ~require_bool(Get(row.v, "is_checked_out"), 0).ok
  ELSE IF field = "due_date"
    THEN ~require_date_or_none(Get(row.v, "due_date"), 0).ok
  ELSE IF field = "type" THEN ~RowType(row.v).ok
  ELSE IF ~RowType(row.v).ok THEN FALSE
  ELSE IF field = "author"
    THEN /\ RowType(row.v).val.v = BookName
         /\ ~require_string(Get(row.v, "author"), "author", 0).ok
  ELSE IF field = "pages"
    THEN /\ RowType(row.v).val.v = BookName
         /\ ~require_positive_int(Get(row.v, "pages"), "pages", 0, FALSE).ok
  ELSE IF field = "duration"
    THEN /\ RowType(row.v).val.v = DVDName
         /\ ~require_positive_int(GetOr(row.v, "duration",
                                        Get(row.v, "duration_minutes")),
                                  "duration", 0, FALSE).ok
  ELSE /\ RowType(row.v).val.v = DVDName
       /\ ~require_rating(Get(row.v, "rating"), 0).ok

ViolatedRules(row) == {k \in 1..Len(RuleOrder) : Violates(row, RuleOrder[k])}
InvalidRows(rows) == {i \in 1..Len(rows) : ViolatedRules(rows[i]) # {}}

\* C15: when a row of the array fails normalization, the error names the
\* first invalid row, counted from 1, and the first rule that row violates.
C15_ErrorNamesFirstRowAndField ==
  (pc = "prompt" /\ file.k = "list") =>
    /\ lastOp.err.row = SetMin(InvalidRows(file.v))
    /\ lastOp.err.field =
         RuleOrder[SetMin(ViolatedRules(file.v[SetMin(InvalidRows(file.v))]))]

\* ---------------------------------------------------------------------
\* add_item, delete_item, get_all_items

\* C16: add_item puts the item at the end and leaves the items before it as
\* they were, so get_all_items lists the items in the order they were added;
\* on a repository made at a path with no file, the items constructed without
\* an id and added one after the other have the ids 1, 2, ... in that order.
C16_AddAppendsInOrder ==
  [][lastOp'.op = "add" =>
       /\ Len(items') = Len(items) + 1
       /\ \A i \in 1..Len(items) : items'[i] = items[i]
       /\ items'[Len(items')] = held
       /\ get_all_items(items').seq = items'
       /\ lastOp'.fresh >= 1 =>
            /\ Len(items') = lastOp'.fresh
            /\ \A i \in 1..Len(items') : items'[i].id = PyInt(i)]_vars

\* the items of `its` whose id differs from item_id, in their order
RECURSIVE Without(_, _)
Without(its, item_id) ==
  IF its = <<>> THEN <<>>
  ELSE IF Head(its).id = PyInt(item_id) THEN Without(Tail(its), item_id)
  ELSE <<Head(its)>> \o Without(Tail(its), item_id)

\* C17: delete_item(id) removes what has the id of the argument and nothing
\* else: the other items stay as they were and in their order, an id that no
\* item has leaves the collection as it was, the call raises nothing and
\* the id counter keeps its value.
C17_DeleteRemovesOnlyThatId ==
  [][lastOp'.op = "delete" =>
       /\ items' = Without(items, lastOp'.id)
       /\ (\A i \in 1..Len(items) : items[i].id # PyInt(lastOp'.id)) => items' = items
       /\ idCounter' = idCounter
       /\ pc' = "idle"]_vars

\* one of two items was deleted and the other one, with the larger id, stays
C17_Witness ==
  /\ lastOp.op = "delete"
  /\ lastOp.removed = 1
  /\ Len(items) = 1
  /\ items[1].id.v > lastOp.id

\* C18: a change of the list that get_all_items returned (an append, a
\* removal, a reordering) changes neither the collection of the repository
\* nor the file.
C18_ReturnedListIsACopy ==
  [][lastOp'.op = "mutate_view" => UNCHANGED <<items, file>>]_vars

\* the caller reordered the returned list of two items
C18_Witness ==
  /\ lastOp.op = "mutate_view"
  /\ lastOp.how = "reverse"
  /\ Len(items) = 2
  /\ view.seq = <<items[2], items[1]>>
  /\ view.seq # items
  /\ file = Serialized(items)

\* ---------------------------------------------------------------------
\* Persistence and the callbacks of the application

UiOps == {"ui_add", "ui_edit", "ui_delete", "ui_check_out", "ui_return"}

\* the last call was an operation that persists, and it completed
Persisted ==
  \/ lastOp.op \in {"add", "delete"}
  \/ lastOp.op = "load" /\ lastOp.outcome \in {"missing", "reset"}
  \/ lastOp.op \in UiOps /\ lastOp.status = "done"

\* C19: after every completed add_item, delete_item, initialization of a
\* missing file, recovery reset, and completed add, edit, delete, check-out
\* or return of the application, the file holds the serialization of the
\* whole collection in its order.
C19_FileMirrorsMemory == Persisted => file = Serialized(items)

\* the application checked out the second of two items and saved both
C19_Witness ==
  /\ lastOp.op = "ui_check_out"
  /\ lastOp.status = "done"
  /\ lastOp.target = 2
  /\ Len(items) = 2
  /\ items[2].is_checked_out = PyBool(TRUE)
  /\ items[2].due_date = PyStr(D_2025_01_15)
  /\ file = Serialized(items)

\* a text that denotes an integer greater than zero
PositiveIntText(t) ==
  LET u == Strip(t)
      digits == IF u # <<>> /\ u[1] = "+" THEN Tail(u) ELSE u
  IN /\ digits # <<>>
     /\ \A i \in 1..Len(digits) : digits[i] \in Digits
     /\ DecVal(digits) > 0

\* a form the application has to reject
InvalidForm(values) ==
  \/ Strip(EntryText(values, "title")) = <<>>
  \/ /\ "author" \in DOMAIN values
     /\ \/ Strip(values["author"]) = <<>>
        \/ ~PositiveIntText(values["pages"])
  \/ /\ "rating" \in DOMAIN values
     /\ \/ ~PositiveIntText(values["duration"])
        \/ ~PositiveIntText(values["rating"])
        \/ DecVal(Strip(values["rating"])) \notin 1..5

\* the call recorded in `r`, made on the collection `its`, has to be rejected
ShouldReject(r, its) ==
  \/ /\ r.op = "ui_check_out"
     /\ r.target # 0
     /\ \/ PyTruthy(its[r.target].is_checked_out)
        \/ ~IsNone(r.input) /\ ~ValidDueDateArg(r.input)
  \/ /\ r.op = "ui_return"
     /\ r.target # 0
     /\ ~PyTruthy(its[r.target].is_checked_out)
  \/ r.op = "ui_add" /\ InvalidForm(r.input)
  \/ r.op = "ui_edit" /\ r.target # 0 /\ InvalidForm(r.input)

\* C20: a callback of the application that has to reject its input (a
\* check-out of a checked-out item or with an empty or malformed date, a
\* return of an item that is not checked out, an add or an edit with a
\* missing title or author, a pages or duration text that is not a positive
\* integer, a rating outside 1..5) shows an error, lets no exception escape
\* and leaves the collection, with every field of the selected item, and the
\* file unchanged.
C20_RejectedCallbackChangesNothing ==
  [][(lastOp'.op \in UiOps /\ ShouldReject(lastOp', items)) =>
       /\ lastOp'.status = "rejected"
       /\ UNCHANGED <<items, file, idCounter>>]_vars

\* an edit with a new title and a pages text that is no integer was rejected
C20_Witness ==
  /\ lastOp.op = "ui_edit"
  /\ lastOp.status = "rejected"
  /\ lastOp.input = BookForm(T_B, T_P, <<"7", ".", "5">>)
  /\ items[lastOp.target].title = PyStr(<<"A">>)
  /\ items[lastOp.target].pages = PyInt(328)
  /\ file = Serialized(items)

\* ---------------------------------------------------------------------
\* The recovery prompt

YesLine(text) == Lower(Strip(text)) \in {<<"y">>, <<"y", "e", "s">>}
NoLine(text) == Lower(Strip(text)) \in {<<"n">>, <<"n", "o">>}

\* the load ended with the reset
EndedWithReset ==
  /\ pc' = "idle"
  /\ lastOp'.outcome = "reset"
  /\ items' = <<>>
  /\ file' = PyList(<<>>)

\* the load ended with the error it had failed with
EndedWithError ==
  /\ pc' = "idle"
  /\ lastOp'.outcome = "declined"
  /\ lastOp'.err = lastOp.err
  /\ UNCHANGED <<items, file, idCounter, repoExists>>

\* the prompt is shown again and nothing else happened
AskedAgain ==
  /\ pc' = "prompt"
  /\ lastOp'.outcome = "prompt"
  /\ lastOp'.err = lastOp.err
  /\ UNCHANGED <<items, file, idCounter, repoExists>>

\* C21: while the prompt waits the load resets nothing, writes nothing and
\* raises nothing; a console line that is neither a yes nor a no asks again,
\* a yes ends the load with the reset and a no with the error; and once the
\* user gives a yes or a no the load finishes.
C21_PromptBlocksUntilAnswered ==
  /\ [](pc = "prompt" => (lastOp.op = "load" /\ lastOp.outcome = "prompt"))
  /\ [][pc = "prompt" => (AskedAgain \/ EndedWithReset \/ EndedWithError)]_vars
  /\ [][\A text \in ConsoleInputs : ConsoleAnswer(text) =>
          IF YesLine(text) THEN EndedWithReset
          ELSE IF NoLine(text) THEN EndedWithError
          ELSE AskedAgain]_vars
  /\ (pc = "prompt") ~>
       (pc = "idle" /\ lastOp.op = "load" /\ lastOp.outcome \in {"reset", "declined"})

\* the prompt was shown again after a line that was neither a yes nor a no,
\* on a repository that holds items
C21_Witness ==
  /\ pc = "prompt"
  /\ lastOp.prompts >= 2
  /\ items # <<>>

\* ---------------------------------------------------------------------
\* Two repositories

\* C22: when a second repository is loaded while the first one holds only
\* ids below the counter, the next item constructed without an id still gets
\* an id that no item of the first repository has.
C22_OtherLoadDoesNotLeak ==
  [][(lastOp'.op = "load_other"
        /\ \A i \in 1..Len(items) : IdOrZero(items[i]) < idCounter) =>
       \A i \in 1..Len(items') : items'[i].id # generate_id(idCounter').id]_vars

\* ---------------------------------------------------------------------
\* load_items as a whole

\* `its` holds one item for every row of `rows`, in the order of the rows
EveryRow(its, rows) ==
  /\ Len(its) = Len(rows)
  /\ \A i \in 1..Len(rows) :
       /\ its[i].id = PyInt(PyIntOf(Get(rows[i].v, "id")).val)
       /\ its[i].title = PyStr(Strip(Get(rows[i].v, "title").v))
       /\ ClassName(its[i]) = RowType(rows[i].v).val.v

\* C23: load_items on a file that holds an array never keeps a part of the
\* rows: with no invalid row the collection becomes every row in file order
\* and the counter is set to the largest id plus one; with an invalid row the
\* collection and the counter stay as they were, and the answer to the
\* prompt then leaves the collection as it was or empties it, the counter
\* untouched.
C23_LoadIsAllOrNothing ==
  [][/\ (LoadStep /\ file.k = "list") =>
          IF InvalidRows(file.v) = {}
          THEN /\ lastOp'.outcome = "loaded"
               /\ EveryRow(items', file.v)
               /\ idCounter' = IF items' = <<>> THEN 1 ELSE MaxId(items') + 1
          ELSE /\ lastOp'.outcome \in {"prompt", "error"}
               /\ UNCHANGED <<items, idCounter>>
     /\ pc = "prompt" =>
          /\ items' \in {items, <<>>}
          /\ lastOp'.outcome = "declined" => items' = items
          /\ lastOp'.outcome = "reset" => items' = <<>>
          /\ idCounter' = idCounter]_vars

\* the reload of a file whose first row is valid and whose second row is not
\* was declined, and the two items held before are still there
C23_Witness ==
  /\ lastOp.op = "load"
  /\ lastOp.outcome = "declined"
  /\ Len(items) = 2
  /\ file.k = "list"
  /\ InvalidRows(file.v) = {2}

\* C24: a file that save_items wrote loads back: when the file is the
\* serialization of the collection, load_items takes it without a prompt and
\* the collection it builds equals the one that was saved, item by item.
C24_SavedFileLoadsBack ==
  [][(LoadStep /\ repoExists /\ file = Serialized(items)) =>
       /\ lastOp'.outcome = "loaded"
       /\ items' = items]_vars
====
